---- MODULE Spec2Model ----
(***************************************************************************)
(* VoiceManager (src/src/clients/discord/voice.ts): the per-speaker        *)
(* buffering callback of handleUserStream, the utterance pipeline that     *)
(* each flush starts, and the stream registry kept by monitorMember.       *)
(*                                                                         *)
(* A Buffer is a sequence of segments [id, len]: len bytes of the chunk    *)
(* that arrived id-th.  Texts are sequences of characters.                 *)
(***************************************************************************)
EXTENDS Integers, Sequences, FiniteSets, TLC

VARIABLES
  now,            \* Date.now()
  arrived,        \* every chunk handed to the callback: [len, t], in arrival order
  buffers,        \* handleUserStream: const buffers: Buffer[]
  totalLength,    \* handleUserStream: let totalLength
  lastChunkTime,  \* handleUserStream: let lastChunkTime
  pipes,          \* the utterance pipelines, one per flush, in flush order
  unhandled,      \* promise rejections that no handler caught
  players,        \* audio players subscribed to a connection: [conn, pipe]
  streams,        \* VoiceManager.streams: user -> opus decoder
  connections,    \* VoiceManager.connections: user -> voice connection
  guildConn,      \* getVoiceConnection(guildId): the guild's connection, 0 for none
  conns,          \* the voice connections made so far: [destroyed]
  rstreams,       \* the receive streams: [conn, user, status, closeHandlers]
  decoders,       \* the opus decoders: [user, src, status, listeners]
  emitted,        \* the "userStream" notifications: [user, decoder]
  skipped,        \* the monitorMember calls that returned at the readableLength check
  premium,        \* process.env.ELEVENLABS_XI_API_KEY is set
  speechSynthesizer, \* VoiceManager.speechSynthesizer: 0 for null, else the engine
  engines,        \* the engines SpeechSynthesizer.create has made
  ttsCalls,       \* the textToSpeech calls: [text, pc, played]
  bufferWav,      \* the content of the file "buffer.wav": the text it speaks
  guild,          \* the voice channels of the guild: [humans, bots]
  joinedChannel,  \* the channel scanGuild last called joinChannel for, 0 for none
  scans           \* the number of scanGuild runs

bufVars == <<now, arrived, buffers, totalLength, lastChunkTime>>

pipeVars == <<pipes, unhandled, players>>

regVars == <<streams, connections, guildConn, conns, rstreams, decoders, emitted, skipped>>

ttsVars == <<premium, speechSynthesizer, engines, ttsCalls, bufferWav>>

scanVars == <<guild, joinedChannel, scans>>

vars == <<bufVars, pipeVars, regVars, ttsVars, scanVars>>

----------------------------------------------------------------------------
(* Program constants *)

maxSilenceTime == 500

MaxUtteranceBytes == 1000000

HardCapBytes == 10000000

(* Bounds of the model *)

MaxChunks == 4

MaxPipelines == 1

MaxConns == 2

MaxDecoders == 3

MaxSkips == 1

MaxSpeechCalls == 2

MaxChannels == 2

MaxChannelSize == 2

MaxScans == 1

MaxFlushes == 2

(* What the environment may deliver *)

ChunkSizes == {0, 150000, 300000}

Gaps == {50, 500, 600}

Null == <<"null">>

Texts == {Null, <<>>, <<"/", "h", "e", "l", "p">>, <<"h", "i">>}

\* A pipeline's response before handleMessage has resolved
Pending == [pending |-> TRUE]

\* handleMessage resolved to no payload at all
Undefined == [undefined |-> TRUE]

\* channel.members, in iteration order
ChannelMembers == <<"bot", "u1">>

IsBot(member) == member = "bot"

----------------------------------------------------------------------------
(* Buffers *)

RECURSIVE SumLen(_)
SumLen(segs) ==
  IF segs = <<>> THEN 0 ELSE Head(segs).len + SumLen(Tail(segs))

\* The first n bytes of a run of segments.
RECURSIVE Take(_, _)
Take(segs, n) ==
  IF segs = <<>> \/ n <= 0 THEN <<>>
  ELSE IF Head(segs).len = 0 THEN Take(Tail(segs), n)
  ELSE IF Head(segs).len <= n
       THEN <<Head(segs)>> \o Take(Tail(segs), n - Head(segs).len)
       ELSE <<[id |-> Head(segs).id, len |-> n]>>

\* Mutant of BufferConcat: the buffers are joined before the chunk at hand
\* is pushed, so the newest chunk is left out.
BufferConcatBeforePush(list, total) ==
  Take(SubSeq(list, 1, Len(list) - 1), total)

\* A Buffer.concat call that is handed the newest chunk alone.
BufferConcatNewestOnly(list, total) ==
  Take(<<list[Len(list)]>>, total)

\* Buffer.concat(list, totalLength): the buffers of list copied in order into a
\* new buffer of totalLength bytes, cut when list is longer, zero-filled (id 0)
\* when it is shorter.
BufferConcat(list, total) ==
  LET bytes == Take(list, total)
  IN IF SumLen(bytes) < total
     THEN bytes \o <<[id |-> 0, len |-> total - SumLen(bytes)]>>
     ELSE bytes

----------------------------------------------------------------------------
(* The buffering callback of handleUserStream *)

\* When the last chunk arrived; before the first one, when the monitor was made.
LastArrival == IF arrived = <<>> THEN 0 ELSE arrived[Len(arrived)].t

\* The monitor hands a chunk to the callback unless the stream it watches has
\* grown past its cap.
MonitorAccepts(len) == SumLen(arrived) + len <= HardCapBytes

\* Mutant of ShouldFlush: the size of the utterance is not looked at.
ShouldFlushOnSilenceOnly(silenceDuration, total) ==
  silenceDuration > maxSilenceTime

\* Mutant of ShouldFlush: a gap of exactly maxSilenceTime counts as silence.
ShouldFlushAtGap(silenceDuration, total) ==
  silenceDuration >= maxSilenceTime \/ total >= MaxUtteranceBytes

\* silenceDuration > maxSilenceTime || totalLength >= 1000000
ShouldFlush(silenceDuration, total) ==
  silenceDuration > maxSilenceTime \/ total >= MaxUtteranceBytes

\* The pipeline as the flush starts it: transcribe(inputBuffer) is called
\* and awaited.
NewPipeline(inputBuffer, user) ==
  [pc |-> "transcribe", user |-> user, input |-> inputBuffer,
   at |-> Len(arrived) + 1, text |-> Null, calls |-> <<"transcribe">>,
   response |-> Pending, said |-> "", caughtAt |-> 0]

\* Time passes with no chunk: once between two chunks, by one of Gaps.
Tick(dt) ==
  /\ now = LastArrival
  /\ now' = now + dt
  /\ UNCHANGED <<arrived, buffers, totalLength, lastChunkTime, pipeVars, regVars, ttsVars, scanVars>>

\* A chunk reaches the callback: it is buffered, and the buffer is flushed to
\* a new pipeline when the chunk ends a silence or fills the utterance.
Chunk(len) ==
  /\ Len(arrived) < MaxChunks
  /\ MonitorAccepts(len)
  /\ LET currentTime == now
         silenceDuration == currentTime - lastChunkTime
         pushed == Append(buffers, [id |-> Len(arrived) + 1, len |-> len])
         total == totalLength + len
     IN /\ arrived' = Append(arrived, [len |-> len, t |-> now])
        /\ lastChunkTime' = currentTime
        /\ IF ShouldFlush(silenceDuration, total)
           THEN /\ buffers' = <<>>
                /\ totalLength' = 0
                /\ pipes' = Append(pipes, NewPipeline(BufferConcat(pushed, total), "u1"))
           ELSE /\ buffers' = pushed
                /\ totalLength' = total
                /\ UNCHANGED pipes
  /\ UNCHANGED <<now, unhandled, players, regVars, ttsVars, scanVars>>

----------------------------------------------------------------------------
(* The stream registry.  The operators below take and return the registry as *)
(* a record r of the registry variables.                                    *)

Reg ==
  [streams |-> streams, connections |-> connections, guildConn |-> guildConn,
   conns |-> conns, rstreams |-> rstreams, decoders |-> decoders,
   emitted |-> emitted, skipped |-> skipped]

\* The registry is r.
RegIs(r) ==
  /\ streams = r.streams
  /\ connections = r.connections
  /\ guildConn = r.guildConn
  /\ conns = r.conns
  /\ rstreams = r.rstreams
  /\ decoders = r.decoders
  /\ emitted = r.emitted
  /\ skipped = r.skipped

RegBecomes(r) ==
  /\ streams' = r.streams
  /\ connections' = r.connections
  /\ guildConn' = r.guildConn
  /\ conns' = r.conns
  /\ rstreams' = r.rstreams
  /\ decoders' = r.decoders
  /\ emitted' = r.emitted
  /\ skipped' = r.skipped

\* After the constructor: both maps empty, no connection.
EmptyReg ==
  [streams |-> <<>>, connections |-> <<>>, guildConn |-> 0, conns |-> <<>>,
   rstreams |-> <<>>, decoders |-> <<>>, emitted |-> <<>>, skipped |-> 0]

\* Map.set(key, value)
MapSet(map, key, value) ==
  [k \in DOMAIN map \cup {key} |-> IF k = key THEN value ELSE map[k]]

\* Map.delete(key)
MapDelete(map, key) == [k \in DOMAIN map \ {key} |-> map[k]]

\* receiver.subscribe(user_id): the receiver keeps one stream per user until
\* that stream emits "close", and hands the same stream to every subscriber.
Subscribed(r, connection, user) ==
  {s \in 1..Len(r.rstreams) :
     /\ r.rstreams[s].conn = connection
     /\ r.rstreams[s].user = user
     /\ r.rstreams[s].status # "closed"}

\* A monitorMember whose readableLength check does not return: it goes on to
\* make the decoder and register the user.
MonitorMemberNoReturn(r, member, readableLength) ==
  LET connection == r.guildConn
      existing == Subscribed(r, connection, member)
      receiveStream == IF existing = {} THEN Len(r.rstreams) + 1
                       ELSE CHOOSE s \in existing : TRUE
      subscribed == IF existing = {}
                    THEN Append(r.rstreams,
                                [conn |-> connection, user |-> member,
                                 status |-> "open", closeHandlers |-> {}])
                    ELSE r.rstreams
      opusDecoder == Len(r.decoders) + 1
  IN [r EXCEPT
        !.rstreams = [subscribed EXCEPT ![receiveStream].closeHandlers = @ \cup {opusDecoder}],
        !.decoders = Append(@, [user |-> member, src |-> receiveStream,
                                status |-> subscribed[receiveStream].status,
                                listeners |-> {"error", "errorHandler", "closeHandler"}]),
        !.streams = MapSet(@, member, opusDecoder),
        !.connections = MapSet(@, member, connection),
        !.emitted = Append(@, [user |-> member, decoder |-> opusDecoder]),
        !.skipped = IF readableLength > 0 THEN @ + 1 ELSE @]

\* monitorMember(member, channel), with the readableLength it finds on the
\* receive stream.
MonitorMember(r, member, readableLength) ==
  LET connection == r.guildConn
      existing == Subscribed(r, connection, member)
      receiveStream == IF existing = {} THEN Len(r.rstreams) + 1
                       ELSE CHOOSE s \in existing : TRUE
      subscribed == IF existing = {}
                    THEN Append(r.rstreams,
                                [conn |-> connection, user |-> member,
                                 status |-> "open", closeHandlers |-> {}])
                    ELSE r.rstreams
      opusDecoder == Len(r.decoders) + 1
  IN IF readableLength > 0
     THEN [r EXCEPT !.rstreams = subscribed, !.skipped = @ + 1]
     ELSE [r EXCEPT
             !.rstreams = [subscribed EXCEPT ![receiveStream].closeHandlers = @ \cup {opusDecoder}],
             !.decoders = Append(@, [user |-> member, src |-> receiveStream,
                                     status |-> subscribed[receiveStream].status,
                                     listeners |-> {"error", "errorHandler", "closeHandler"}]),
             !.streams = MapSet(@, member, opusDecoder),
             !.connections = MapSet(@, member, connection),
             !.emitted = Append(@, [user |-> member, decoder |-> opusDecoder])]

\* for (const [, member] of channel.members) { if (bot) continue; monitorMember }
RECURSIVE MonitorMembers(_, _)
MonitorMembers(r, members) ==
  IF members = <<>> THEN r
  ELSE IF IsBot(Head(members)) THEN MonitorMembers(r, Tail(members))
  ELSE MonitorMembers(MonitorMember(r, Head(members), 0), Tail(members))

\* connection.destroy(): the guild has no connection any more.
Destroy(r) ==
  IF r.guildConn = 0 THEN r
  ELSE [r EXCEPT !.conns[r.guildConn].destroyed = TRUE, !.guildConn = 0]

\* joinChannel(channel), for a channel with these members: the old connection
\* is destroyed, a new one joined, and every member that is no bot monitored
\* on it.
JoinChannelOn(r, members) ==
  LET left == Destroy(r)
      joined == [left EXCEPT !.conns = Append(@, [destroyed |-> FALSE]),
                             !.guildConn = Len(left.conns) + 1]
  IN MonitorMembers(joined, members)

\* joinChannel(channel) for the channel of ChannelMembers
JoinChannelResult(r) == JoinChannelOn(r, ChannelMembers)

\* Members(channel) as a set
MemberSet == {ChannelMembers[i] : i \in 1..Len(ChannelMembers)}

\* pipeline(receiveStream, opusDecoder): when either end is destroyed the
\* other is destroyed with it; each then emits "close" in its own time.
TearDown(r, s) ==
  [r EXCEPT
     !.rstreams[s].status = IF @ = "open" THEN "destroyed" ELSE @,
     !.decoders = [d \in DOMAIN @ |->
                     IF @[d].src = s /\ @[d].status = "open"
                     THEN [@[d] EXCEPT !.status = "destroyed"] ELSE @[d]]]

\* A streamCloseHandler written as streams.delete(u) || connections.delete(u):
\* the second delete runs only when the first found nothing.
StreamCloseHandlerShortCircuit(r, user) ==
  IF user \in DOMAIN r.streams
  THEN [r EXCEPT !.streams = MapDelete(@, user)]
  ELSE [r EXCEPT !.connections = MapDelete(@, user)]

\* A streamCloseHandler that deletes the streams entry alone.
StreamCloseHandlerStreamsOnly(r, user) ==
  [r EXCEPT !.streams = MapDelete(@, user)]

\* streamCloseHandler of the monitorMember call for this user
StreamCloseHandler(r, user) ==
  [r EXCEPT !.streams = MapDelete(@, user),
            !.connections = MapDelete(@, user)]

RECURSIVE RunStreamCloseHandlers(_, _, _)
RunStreamCloseHandlers(r, s, handlers) ==
  IF handlers = {} THEN r
  ELSE LET d == CHOOSE x \in handlers : TRUE
       IN RunStreamCloseHandlers(StreamCloseHandler(r, r.rstreams[s].user),
                                 s, handlers \ {d})

\* closeHandler of the monitorMember call that made decoder d
CloseHandler(r, d) ==
  [r EXCEPT
     !.decoders[d].listeners = @ \ {"errorHandler", "closeHandler"},
     !.rstreams[r.decoders[d].src].closeHandlers = @ \ {d}]

(* Registry actions *)

\* joinChannel, from handleVoiceStateUpdate, scanGuild or the join command
JoinChannel ==
  /\ Len(conns) < MaxConns
  /\ Len(decoders) < MaxDecoders
  /\ RegBecomes(JoinChannelResult(Reg))
  /\ UNCHANGED <<bufVars, pipeVars, ttsVars, scanVars>>

\* handleLeaveChannelCommand: connection.destroy()
LeaveChannel ==
  /\ guildConn # 0
  /\ RegBecomes(Destroy(Reg))
  /\ UNCHANGED <<bufVars, pipeVars, ttsVars, scanVars>>

\* connection.receiver.speaking.on("start", ...)
SpeakingStart(user_id, readableLength) ==
  /\ guildConn # 0
  /\ Len(decoders) < MaxDecoders
  /\ readableLength > 0 => Subscribed(Reg, guildConn, user_id) # {} /\ skipped < MaxSkips
  /\ IF IsBot(user_id)
     THEN UNCHANGED regVars
     ELSE RegBecomes(MonitorMember(Reg, user_id, readableLength))
  /\ UNCHANGED <<bufVars, pipeVars, ttsVars, scanVars>>

\* The opus decoder fails on a packet: "error" is logged by both error
\* listeners and the pipeline is torn down.
DecoderError(d) ==
  /\ decoders[d].status = "open"
  /\ RegBecomes(TearDown([Reg EXCEPT !.decoders[d].status = "destroyed"],
                         decoders[d].src))
  /\ UNCHANGED <<bufVars, pipeVars, ttsVars, scanVars>>

\* The receive stream ends or is destroyed (the user left, the transport
\* went away).
ReceiveStreamEnds(s) ==
  /\ rstreams[s].status = "open"
  /\ RegBecomes(TearDown(Reg, s))
  /\ UNCHANGED <<bufVars, pipeVars, ttsVars, scanVars>>

\* receiveStream emits "close"
ReceiveStreamClose(s) ==
  /\ rstreams[s].status = "destroyed"
  /\ RegBecomes(RunStreamCloseHandlers(
                  [Reg EXCEPT !.rstreams[s].status = "closed"],
                  s, rstreams[s].closeHandlers))
  /\ UNCHANGED <<bufVars, pipeVars, ttsVars, scanVars>>

\* opusDecoder emits "close"
DecoderClose(d) ==
  /\ decoders[d].status = "destroyed"
  /\ LET closed == [Reg EXCEPT !.decoders[d].status = "closed"]
     IN RegBecomes(IF "closeHandler" \in decoders[d].listeners
                   THEN CloseHandler(closed, d) ELSE closed)
  /\ UNCHANGED <<bufVars, pipeVars, ttsVars, scanVars>>

RegistryNext ==
  \/ JoinChannel
  \/ LeaveChannel
  \/ \E u \in MemberSet, rl \in {0, 1} : SpeakingStart(u, rl)
  \/ \E d \in DOMAIN decoders : DecoderError(d)
  \/ \E s \in DOMAIN rstreams : ReceiveStreamEnds(s)
  \/ \E s \in DOMAIN rstreams : ReceiveStreamClose(s)
  \/ \E d \in DOMAIN decoders : DecoderClose(d)

\* No textToSpeech call has been made: the engine field is null (line 45)
\* and "buffer.wav" has not been written.
SpeechIdle ==
  /\ premium = FALSE /\ speechSynthesizer = 0 /\ engines = 0
  /\ ttsCalls = <<>> /\ bufferWav = ""

\* The guild has the one voice channel of ChannelMembers; scanGuild has not run.
ScanIdle ==
  /\ guild = <<ChannelMembers>> /\ joinedChannel = 0 /\ scans = 0

RegistryInit ==
  /\ now = 0 /\ arrived = <<>> /\ buffers = <<>> /\ totalLength = 0
  /\ lastChunkTime = 0
  /\ pipes = <<>> /\ unhandled = 0 /\ players = {}
  /\ streams = EmptyReg.streams /\ connections = EmptyReg.connections
  /\ guildConn = 0 /\ conns = <<>> /\ rstreams = <<>> /\ decoders = <<>>
  /\ emitted = <<>> /\ skipped = 0
  /\ SpeechIdle /\ ScanIdle

SpecRegistry == RegistryInit /\ [][RegistryNext]_vars

----------------------------------------------------------------------------
(* The utterance pipeline: the callback's body after the flush.  pc names   *)
(* the call the pipeline awaits; each action is the code from one await to  *)
(* the next.                                                                *)

\* JavaScript truthiness of a text
Truthy(text) == text # Null /\ text # <<>>

\* text.startsWith(prefix), for a one-character prefix
StartsWith(text, prefix) == Len(text) > 0 /\ text[1] = prefix

\* What handleMessage may resolve to: each field a string, "" when it is
\* empty or missing.
Responses ==
  [responseMessage : {"", "rm"}, content : {"", "c"}, message : {"", "m"}]

\* Mutant of ExtractContent: content is looked at before responseMessage.
ExtractContentFirst(response) ==
  IF response.content # "" THEN response.content
  ELSE IF response.responseMessage # "" THEN response.responseMessage
  ELSE response.message

\* response.responseMessage || response.content || response.message
ExtractContent(response) ==
  IF response.responseMessage # "" THEN response.responseMessage
  ELSE IF response.content # "" THEN response.content
  ELSE response.message

\* The ensure-exists calls and composeState, in the order the code awaits them
AgentCalls ==
  <<"ensureUserExists(agentId)", "ensureUserExists(userId)", "ensureRoomExists",
    "ensureParticipantInRoom(userId)", "ensureParticipantInRoom(agentId)",
    "composeState">>

\* The call the code makes when the awaited call pc resolves, for the
\* straight-line part of the pipeline.
CallAfter(pc) ==
  IF pc = "fetchBotName" THEN AgentCalls[1]
  ELSE LET i == CHOOSE k \in 1..Len(AgentCalls) : AgentCalls[k] = pc
       IN AgentCalls[i + 1]

\* pipeline p calls fn and awaits it
Call(p, fn) == [p EXCEPT !.pc = fn, !.calls = Append(@, fn)]

\* pipeline p is over
Return(p) == [p EXCEPT !.pc = "done"]

\* catch (error) { console.error(...) }
Catch(p) == [p EXCEPT !.pc = "done", !.caughtAt = Len(p.calls)]

\* transcribe resolves: the ids are derived and fetchBotName is called
TranscribeReturns(i, text) ==
  /\ pipes[i].pc = "transcribe"
  /\ pipes' = [pipes EXCEPT ![i] = Call([@ EXCEPT !.text = text], "fetchBotName")]
  /\ UNCHANGED <<bufVars, unhandled, players, regVars, ttsVars, scanVars>>

\* fetchBotName or one of the ensure-exists calls resolves: the next call of
\* the chain is made
AgentCallReturns(i) ==
  /\ pipes[i].pc \in {"fetchBotName"} \cup {AgentCalls[k] : k \in 1..Len(AgentCalls) - 1}
  /\ pipes' = [pipes EXCEPT ![i] = Call(@, CallAfter(@.pc))]
  /\ UNCHANGED <<bufVars, unhandled, players, regVars, ttsVars, scanVars>>

\* composeState resolves: a command is dropped, any other text is handed to
\* handleMessage
ComposeStateReturns(i) ==
  /\ pipes[i].pc = "composeState"
  /\ pipes' = [pipes EXCEPT ![i] =
                 IF Truthy(@.text) /\ StartsWith(@.text, "/")
                 THEN Return(@)
                 ELSE Call(@, "handleMessage")]
  /\ UNCHANGED <<bufVars, unhandled, players, regVars, ttsVars, scanVars>>

\* handleMessage resolves: the response text is taken from the payload and
\* handed to textToSpeech, unless there is none
HandleMessageReturns(i, response) ==
  /\ pipes[i].pc = "handleMessage"
  /\ pipes' = [pipes EXCEPT ![i] =
                 IF response = Undefined
                 THEN Catch([@ EXCEPT !.response = response])
                 ELSE LET content == ExtractContent(response)
                      IN IF content = ""
                         THEN Return([@ EXCEPT !.response = response])
                         ELSE Call([@ EXCEPT !.response = response, !.said = content],
                                   "textToSpeech")]
  /\ UNCHANGED <<bufVars, unhandled, players, regVars, ttsVars, scanVars>>

\* A playAudioStream that makes the player and subscribes it before it looks
\* at what connections.get returned.
PlayAudioStreamPlayerFirst(userId, i) ==
  players \cup {[conn |-> IF userId \in DOMAIN connections
                          THEN connections[userId] ELSE 0,
                 pipe |-> i]}

\* playAudioStream(userId, audioStream) when nothing in it throws: the
\* players after it.  With no connections entry it logs and returns; otherwise
\* it makes a player and subscribes it to the connection.
PlayAudioStream(userId, i) ==
  LET connection == IF userId \in DOMAIN connections THEN connections[userId] ELSE 0
  IN IF connection = 0 THEN players
     ELSE players \cup {[conn |-> connection, pipe |-> i]}

\* textToSpeech resolves: callback(responseStream) is called and not awaited;
\* playAudioStream runs in it, and a throw in there is caught by nobody
TextToSpeechReturns(i, hasStream, playbackThrows) ==
  /\ pipes[i].pc = "textToSpeech"
  /\ LET user_id == pipes[i].user
         hasConnection == user_id \in DOMAIN connections
     IN /\ playbackThrows => hasStream /\ hasConnection
        /\ pipes' = [pipes EXCEPT ![i] =
                       IF hasStream THEN Return([@ EXCEPT !.calls = Append(@, "playAudioStream")])
                       ELSE Return(@)]
        /\ players' = IF hasStream /\ ~playbackThrows
                      THEN PlayAudioStream(user_id, i)
                      ELSE players
        /\ unhandled' = IF playbackThrows THEN unhandled + 1 ELSE unhandled
  /\ UNCHANGED <<bufVars, regVars, ttsVars, scanVars>>

\* the awaited call rejects: the catch block logs the error
AwaitRejects(i) ==
  /\ pipes[i].pc # "done"
  /\ pipes' = [pipes EXCEPT ![i] = Catch(@)]
  /\ UNCHANGED <<bufVars, unhandled, players, regVars, ttsVars, scanVars>>

----------------------------------------------------------------------------
(* Specifications *)

\* The state once joinChannel has monitored the speaker and "userStream" has
\* made handleUserStream set up the callback, at time 0.
Monitoring ==
  /\ now = 0 /\ arrived = <<>> /\ buffers = <<>> /\ totalLength = 0
  /\ lastChunkTime = 0
  /\ pipes = <<>> /\ unhandled = 0 /\ players = {}
  /\ RegIs(JoinChannelResult(EmptyReg))
  /\ SpeechIdle /\ ScanIdle

\* The buffering callback under every arrival pattern; the pipelines it
\* starts stay suspended at transcribe.
MonitorNext ==
  \/ \E dt \in Gaps : Tick(dt)
  \/ \E len \in ChunkSizes : Chunk(len)

SpecMonitor == Monitoring /\ [][MonitorNext]_vars

\* The pipelines under every outcome of the collaborators; each chunk fills
\* an utterance.
PipelineNext ==
  \/ Len(pipes) < MaxPipelines /\ Chunk(MaxUtteranceBytes)
  \/ \E i \in DOMAIN pipes, text \in Texts : TranscribeReturns(i, text)
  \/ \E i \in DOMAIN pipes : AgentCallReturns(i)
  \/ \E i \in DOMAIN pipes : ComposeStateReturns(i)
  \/ \E i \in DOMAIN pipes, response \in Responses \cup {Undefined} :
       HandleMessageReturns(i, response)
  \/ \E i \in DOMAIN pipes, hasStream \in BOOLEAN, playbackThrows \in BOOLEAN :
       TextToSpeechReturns(i, hasStream, playbackThrows)
  \/ \E i \in DOMAIN pipes : AwaitRejects(i)

SpecPipeline == Monitoring /\ [][PipelineNext]_vars

----------------------------------------------------------------------------
(* textToSpeech.  Each call is a record: the text it was given, the await it *)
(* is suspended at, the stream it returned and what was read from that       *)
(* stream.                                                                    *)

\* The texts the pipelines hand to textToSpeech
SpeechTexts == {"rm", "c", "m"}

\* Nothing read from the stream yet
Unread == ""

\* textToSpeech(text) is called and runs to its first await
TextToSpeech(text) ==
  /\ Len(ttsCalls) < MaxSpeechCalls
  /\ ttsCalls' = Append(ttsCalls,
                        [text |-> text,
                         pc |-> IF premium THEN "elevenlabs"
                                ELSE IF speechSynthesizer = 0 THEN "create"
                                ELSE "synthesize",
                         stream |-> "none", played |-> Unread])
  /\ UNCHANGED <<premium, speechSynthesizer, engines, bufferWav>>
  /\ UNCHANGED <<bufVars, pipeVars, regVars, scanVars>>

\* the textToSpeech of ../elevenlabs resolves to a stream of the text's audio
ElevenlabsReturns(k) ==
  /\ ttsCalls[k].pc = "elevenlabs"
  /\ ttsCalls' = [ttsCalls EXCEPT ![k].pc = "returned", ![k].stream = "remote"]
  /\ UNCHANGED <<premium, speechSynthesizer, engines, bufferWav>>
  /\ UNCHANGED <<bufVars, pipeVars, regVars, scanVars>>

\* SpeechSynthesizer.create resolves: the new engine is stored in
\* this.speechSynthesizer and synthesize(text) is called on it
CreateReturns(k) ==
  /\ ttsCalls[k].pc = "create"
  /\ engines' = engines + 1
  /\ speechSynthesizer' = engines + 1
  /\ ttsCalls' = [ttsCalls EXCEPT ![k].pc = "synthesize"]
  /\ UNCHANGED <<premium, bufferWav>>
  /\ UNCHANGED <<bufVars, pipeVars, regVars, scanVars>>

\* synthesize resolves: the audio is encoded, written to "buffer.wav", and a
\* read stream on that file is returned
SynthesizeReturns(k) ==
  /\ ttsCalls[k].pc = "synthesize"
  /\ bufferWav' = ttsCalls[k].text
  /\ ttsCalls' = [ttsCalls EXCEPT ![k].pc = "returned", ![k].stream = "file"]
  /\ UNCHANGED <<premium, speechSynthesizer, engines>>
  /\ UNCHANGED <<bufVars, pipeVars, regVars, scanVars>>

\* create or synthesize or the remote call rejects: textToSpeech rejects
SpeechRejects(k) ==
  /\ ttsCalls[k].pc \in {"elevenlabs", "create", "synthesize"}
  /\ ttsCalls' = [ttsCalls EXCEPT ![k].pc = "rejected"]
  /\ UNCHANGED <<premium, speechSynthesizer, engines, bufferWav>>
  /\ UNCHANGED <<bufVars, pipeVars, regVars, scanVars>>

\* The content a read stream yields: a stream made by
\* fs.createReadStream("buffer.wav") yields what the file holds when it is
\* read.
StreamContent(call) ==
  IF call.stream = "file" THEN bufferWav ELSE call.text

\* The player reads the stream the call returned
ReadStream(k) ==
  /\ ttsCalls[k].pc = "returned"
  /\ ttsCalls[k].played = Unread
  /\ ttsCalls' = [ttsCalls EXCEPT ![k].played = StreamContent(ttsCalls[k])]
  /\ UNCHANGED <<premium, speechSynthesizer, engines, bufferWav>>
  /\ UNCHANGED <<bufVars, pipeVars, regVars, scanVars>>

SpeechNext ==
  \/ \E text \in SpeechTexts : TextToSpeech(text)
  \/ \E k \in DOMAIN ttsCalls : ElevenlabsReturns(k)
  \/ \E k \in DOMAIN ttsCalls : CreateReturns(k)
  \/ \E k \in DOMAIN ttsCalls : SynthesizeReturns(k)
  \/ \E k \in DOMAIN ttsCalls : SpeechRejects(k)
  \/ \E k \in DOMAIN ttsCalls : ReadStream(k)

\* The process starts with or without ELEVENLABS_XI_API_KEY; no call yet.
SpeechInit ==
  /\ now = 0 /\ arrived = <<>> /\ buffers = <<>> /\ totalLength = 0
  /\ lastChunkTime = 0
  /\ pipes = <<>> /\ unhandled = 0 /\ players = {}
  /\ RegIs(EmptyReg)
  /\ premium \in BOOLEAN /\ speechSynthesizer = 0 /\ engines = 0
  /\ ttsCalls = <<>> /\ bufferWav = ""
  /\ ScanIdle

SpecSpeech == SpeechInit /\ [][SpeechNext]_vars

----------------------------------------------------------------------------
(* scanGuild.  A voice channel is the sequence of its members, "bot" for a  *)
(* bot; a guild is the sequence of its voice channels in iteration order.   *)

Humans == {"u1", "u2"}

\* voiceChannel.members.size
Size(channel) == Len(channel)

\* The members of a channel that are no bots
NonBots(channel) == {m \in DOMAIN channel : ~IsBot(channel[m])}

\* The voice channels a guild may have: no user is in a channel twice
VoiceChannels ==
  {channel \in UNION {[1..n -> Humans \cup {"bot"}] : n \in 0..MaxChannelSize} :
     \A a, b \in NonBots(channel) : channel[a] = channel[b] => a = b}

\* The guilds: no user is in two voice channels at once
Guilds ==
  {g \in UNION {[1..n -> VoiceChannels] : n \in 0..MaxChannels} :
     \A i, j \in DOMAIN g :
       i # j => {g[i][m] : m \in NonBots(g[i])} \cap {g[j][m] : m \in NonBots(g[j])} = {}}

\* The loop of scanGuild from channel i on, chosenChannel being 0 for null
RECURSIVE ChosenChannel(_, _, _)
ChosenChannel(channels, i, chosenChannel) ==
  IF i > Len(channels) THEN chosenChannel
  ELSE ChosenChannel(channels, i + 1,
         IF /\ Size(channels[i]) > 0
            /\ \/ chosenChannel = 0
               \/ Size(channels[i]) > Size(channels[chosenChannel])
         THEN i ELSE chosenChannel)

\* scanGuild(guild)
ScanGuild ==
  /\ scans < MaxScans
  /\ scans' = scans + 1
  /\ LET chosenChannel == ChosenChannel(guild, 1, 0)
     IN /\ joinedChannel' = chosenChannel
        /\ IF chosenChannel # 0
           THEN RegBecomes(JoinChannelOn(Reg, guild[chosenChannel]))
           ELSE UNCHANGED regVars
  /\ UNCHANGED guild
  /\ UNCHANGED <<bufVars, pipeVars, ttsVars>>

ScanNext == ScanGuild

\* The client becomes ready in a guild with any of the channel populations
ScanInit ==
  /\ now = 0 /\ arrived = <<>> /\ buffers = <<>> /\ totalLength = 0
  /\ lastChunkTime = 0
  /\ pipes = <<>> /\ unhandled = 0 /\ players = {}
  /\ RegIs(EmptyReg)
  /\ SpeechIdle
  /\ guild \in Guilds /\ joinedChannel = 0 /\ scans = 0

SpecScan == ScanInit /\ [][ScanNext]_vars

\* The pipelines of a user while the user's session closes under them: each
\* chunk comes from an open decoder and fills an utterance, and the decoder
\* and the receive stream fail, end and close in every order.
PlaybackNext ==
  \/ /\ Len(pipes) < MaxPipelines
     /\ \E d \in DOMAIN decoders : decoders[d].status = "open"
     /\ Chunk(MaxUtteranceBytes)
  \/ \E i \in DOMAIN pipes, text \in Texts : TranscribeReturns(i, text)
  \/ \E i \in DOMAIN pipes : AgentCallReturns(i)
  \/ \E i \in DOMAIN pipes : ComposeStateReturns(i)
  \/ \E i \in DOMAIN pipes, response \in Responses \cup {Undefined} :
       HandleMessageReturns(i, response)
  \/ \E i \in DOMAIN pipes, hasStream \in BOOLEAN, playbackThrows \in BOOLEAN :
       TextToSpeechReturns(i, hasStream, playbackThrows)
  \/ \E i \in DOMAIN pipes : AwaitRejects(i)
  \/ \E d \in DOMAIN decoders : DecoderError(d)
  \/ \E s \in DOMAIN rstreams : ReceiveStreamEnds(s)
  \/ \E s \in DOMAIN rstreams : ReceiveStreamClose(s)
  \/ \E d \in DOMAIN decoders : DecoderClose(d)

SpecPlayback == Monitoring /\ [][PlaybackNext]_vars

\* Chunk sizes and gaps under which flushes on silence and on size both
\* happen within a few chunks
BurstSizes == {300000, 700000}

BurstGaps == {50, 600}

\* The buffering callback while the pipelines it started run on: chunks
\* arrive between the awaits of the pipelines in flight, which get past
\* transcribe or are rejected there.
InterleavedNext ==
  \/ \E dt \in BurstGaps : Tick(dt)
  \/ \E len \in BurstSizes : Chunk(len) /\ Len(pipes') <= MaxFlushes
  \/ \E i \in DOMAIN pipes : TranscribeReturns(i, <<"h", "i">>)
  \/ \E i \in DOMAIN pipes : AwaitRejects(i)

SpecInterleaved == Monitoring /\ [][InterleavedNext]_vars

\* The whole manager: the registry, the callback and the pipelines together.
Init == Monitoring

Next == RegistryNext \/ MonitorNext \/ PipelineNext \/ SpeechNext \/ ScanNext

Spec == Init /\ [][Next]_vars

----------------------------------------------------------------------------
(* What the claims speak of, read from the arrival log *)

\* The gap before the j-th chunk; before the first, since the monitor was made.
GapBefore(j) == arrived[j].t - (IF j = 1 THEN 0 ELSE arrived[j - 1].t)

\* The first chunk of the k-th utterance: the one after the previous flush.
FlushStart(k) == IF k = 1 THEN 1 ELSE pipes[k - 1].at + 1

\* The chunks a..b as they arrived, as one run of bytes.
RECURSIVE ArrivedBytes(_, _)
ArrivedBytes(a, b) ==
  IF a > b THEN <<>>
  ELSE (IF arrived[a].len = 0 THEN <<>> ELSE <<[id |-> a, len |-> arrived[a].len]>>)
       \o ArrivedBytes(a + 1, b)

\* The chunks that arrived after the last flush.
Unflushed ==
  ArrivedBytes(IF pipes = <<>> THEN 1 ELSE pipes[Len(pipes)].at + 1, Len(arrived))

\* The names of the calls pipeline i has made.
Called(i) == {pipes[i].calls[n] : n \in 1..Len(pipes[i].calls)}

\* transcribe has resolved for pipeline i.
Transcribed(i) == Len(pipes[i].calls) >= 2

AgentCallSet == {AgentCalls[k] : k \in 1..Len(AgentCalls)}

----------------------------------------------------------------------------
(* Claims *)

\* C1: an utterance is flushed (transcribe is called) only by a chunk that
\* comes more than 500 ms after the one before it, or that brings the bytes
\* received since the last flush to 1,000,000 or more.
C1_NoFlushBeforeGapOrCap ==
  \A k \in DOMAIN pipes :
    \/ GapBefore(pipes[k].at) > 500
    \/ SumLen(ArrivedBytes(FlushStart(k), pipes[k].at)) >= 1000000

\* C1 witness: four chunks, 900,000 bytes, every gap at most 500 ms and one
\* of exactly 500 ms, and nothing flushed.
C1_Witness ==
  /\ Len(arrived) = 4
  /\ SumLen(arrived) = 900000
  /\ \A j \in 1..4 : GapBefore(j) <= 500
  /\ \E j \in 1..4 : GapBefore(j) = 500
  /\ pipes = <<>>
  /\ Len(buffers) = 4

\* C2: the chunk that brings the bytes since the last flush to 1,000,000 or
\* more is flushed by its own handler (so fewer than 1,000,000 bytes are ever
\* left unflushed), and each utterance is exactly the chunks received since
\* the previous flush, in arrival order.
C2_CapFlushIsExactConcat ==
  /\ SumLen(Unflushed) < 1000000
  /\ \A k \in DOMAIN pipes :
       pipes[k].input = ArrivedBytes(FlushStart(k), pipes[k].at)

\* C2 witness: an utterance of several chunks flushed by size alone.
C2_Witness ==
  \E k \in DOMAIN pipes :
    /\ GapBefore(pipes[k].at) <= 500
    /\ Len(pipes[k].input) >= 4
    /\ SumLen(pipes[k].input) >= 1000000
    /\ pipes[k].input = ArrivedBytes(FlushStart(k), pipes[k].at)

\* The scenario of C3: chunks of 300000, 300000, 300000 and 150000 bytes,
\* 50 ms apart.
FourChunksArrived ==
  /\ Len(arrived) = 4
  /\ \A j \in 1..3 : arrived[j].len = 300000
  /\ arrived[4].len = 150000
  /\ \A j \in 1..4 : GapBefore(j) = 50

C8_NoEmptyUtterance ==
  \A k \in DOMAIN pipes : SumLen(pipes[k].input) > 0

\* C6: a pipeline whose transcription begins with "/" makes none of the
\* ensure-exists calls, nor composeState, handleMessage, textToSpeech or
\* playback.
C6_CommandAborts ==
  \A i \in DOMAIN pipes :
    (Transcribed(i) /\ Truthy(pipes[i].text) /\ StartsWith(pipes[i].text, "/"))
    => Called(i) \cap (AgentCallSet \cup {"handleMessage", "textToSpeech", "playAudioStream"}) = {}

\* C7: a pipeline whose transcription is empty or falsy makes none of the
\* ensure-exists calls, nor composeState, handleMessage, textToSpeech or
\* playback.
C7_EmptyTextAborts ==
  \A i \in DOMAIN pipes :
    (Transcribed(i) /\ ~Truthy(pipes[i].text))
    => Called(i) \cap (AgentCallSet \cup {"handleMessage", "textToSpeech", "playAudioStream"}) = {}

\* C9: no error of a pipeline step escapes the catch block, and a pipeline
\* whose step failed is over and has made no call since.
C9_ErrorsCaught ==
  /\ unhandled = 0
  /\ \A i \in DOMAIN pipes :
       pipes[i].caughtAt > 0
       => pipes[i].pc = "done" /\ Len(pipes[i].calls) = pipes[i].caughtAt

\* C10: the text handed to textToSpeech is the first non-empty of
\* responseMessage, content and message; with all three empty neither
\* textToSpeech nor playback is called.
C10_FirstNonEmptyField ==
  \A i \in DOMAIN pipes :
    (pipes[i].response \in Responses) =>
      LET r == pipes[i].response
      IN /\ r.responseMessage # "" => pipes[i].said = r.responseMessage
         /\ (r.responseMessage = "" /\ r.content # "") => pipes[i].said = r.content
         /\ (r.responseMessage = "" /\ r.content = "" /\ r.message # "")
              => pipes[i].said = r.message
         /\ (r.responseMessage = "" /\ r.content = "" /\ r.message = "")
              <=> Called(i) \cap {"textToSpeech", "playAudioStream"} = {}

\* C10 witness: a payload with only content set, and that text handed to
\* textToSpeech.
C10_Witness ==
  \E i \in DOMAIN pipes :
    /\ pipes[i].response = [responseMessage |-> "", content |-> "c", message |-> ""]
    /\ pipes[i].said = "c"
    /\ "textToSpeech" \in Called(i)

\* C4: a user whose receive stream is open has one decoder made on it and
\* one "userStream" notification, however often monitorMember ran.
C4_OneSessionPerLiveUser ==
  \A s \in DOMAIN rstreams :
    rstreams[s].status = "open" =>
      /\ Cardinality({d \in DOMAIN decoders : decoders[d].src = s}) <= 1
      /\ Cardinality({e \in DOMAIN emitted : decoders[emitted[e].decoder].src = s}) <= 1

\* C5 (the registry half): once every decoder and every receive stream of a
\* user has closed, in whatever order, the user has no entry in streams and
\* none in connections.
C5_ReleasedOnEveryExit ==
  \A u \in MemberSet :
    ( /\ \E d \in DOMAIN decoders : decoders[d].user = u
      /\ \A d \in DOMAIN decoders : decoders[d].user = u => decoders[d].status = "closed"
      /\ \A s \in DOMAIN rstreams : rstreams[s].user = u => rstreams[s].status = "closed" )
    => /\ u \notin DOMAIN streams
       /\ u \notin DOMAIN connections

\* C18: streams and connections have the same set of user keys in every
\* state: monitorMember sets both and streamCloseHandler deletes both.
C18_SameKeys ==
  DOMAIN streams = DOMAIN connections

\* C18 witness: a user was registered in both maps on a receive stream, and
\* the close of that stream removed the user from both.
C18_Witness ==
  \E s \in DOMAIN rstreams :
    /\ rstreams[s].status = "closed"
    /\ \E d \in DOMAIN decoders : decoders[d].src = s
    /\ rstreams[s].user \notin DOMAIN streams
    /\ rstreams[s].user \notin DOMAIN connections

\* C15: streamCloseHandler is idempotent: run for a user in any reachable
\* state it leaves the user in neither map, and run again it changes nothing.
C15_StreamCloseIdempotent ==
  \A u \in MemberSet :
    LET once == StreamCloseHandler(Reg, u)
        twice == StreamCloseHandler(once, u)
    IN /\ u \notin DOMAIN once.streams
       /\ u \notin DOMAIN once.connections
       /\ twice = once

\* C15 witness: a receive stream closed with two streamCloseHandlers
\* registered on it, so the handler ran twice for its user.
C15_Witness ==
  \E s \in DOMAIN rstreams :
    /\ rstreams[s].status = "closed"
    /\ Cardinality(rstreams[s].closeHandlers) >= 2
    /\ rstreams[s].user \notin DOMAIN streams
    /\ rstreams[s].user \notin DOMAIN connections

\* C17: a monitorMember call that finds readableLength > 0 on the user's
\* receive stream changes nothing: no decoder, no listener on a decoder or
\* on a receive stream, both maps as they were, no "userStream" notification.
C17_BufferedSubscriptionSkips ==
  [][skipped' > skipped =>
       UNCHANGED <<streams, connections, guildConn, conns, rstreams, decoders, emitted>>]_vars

\* C17 witness: monitorMember has returned at the readableLength check for
\* a user who is registered on an open receive stream.
C17_Witness ==
  /\ skipped > 0
  /\ \E s \in DOMAIN rstreams :
       /\ rstreams[s].status = "open"
       /\ rstreams[s].user \in DOMAIN streams

\* C19: a user whose newest decoder is open and reads a receive stream of
\* the guild's current connection has a connections entry, and that entry is
\* the guild's current, non-destroyed connection: no close of a receive
\* stream of a superseded connection has removed it.
C19_CurrentSessionKept ==
  /\ \A d \in DOMAIN decoders :
       ( /\ decoders[d].status = "open"
         /\ guildConn # 0
         /\ rstreams[decoders[d].src].conn = guildConn
         /\ \A e \in DOMAIN decoders : decoders[e].user = decoders[d].user => e <= d )
       => /\ decoders[d].user \in DOMAIN connections
          /\ connections[decoders[d].user] = guildConn
          /\ ~conns[guildConn].destroyed

\* C11: a playAudioStream call for a user with no connections entry raises
\* nothing, makes and subscribes no player, and leaves the registry as it was.
C11_NoConnectionNoPlayback ==
  [][\A i \in DOMAIN pipes :
       ( /\ "playAudioStream" \notin Called(i)
         /\ "playAudioStream" \in Called(i)'
         /\ pipes[i].user \notin DOMAIN connections )
       => /\ players' = players
          /\ unhandled' = unhandled
          /\ UNCHANGED regVars]_vars

\* C11 witness: playAudioStream was called by a pipeline whose user had been
\* removed from connections, and no player exists and no error escaped.
C11_Witness ==
  \E i \in DOMAIN pipes :
    /\ "playAudioStream" \in Called(i)
    /\ pipes[i].user \notin DOMAIN connections
    /\ \A p \in players : p.pipe # i
    /\ unhandled = 0

\* C12: when every receive stream of a pipeline's user has closed while the
\* pipeline was in flight, the pipeline's playAudioStream call subscribes no
\* player and lets no error escape.
C12_PlaybackAfterCloseIsHarmless ==
  [][\A i \in DOMAIN pipes :
       ( /\ "playAudioStream" \notin Called(i)
         /\ "playAudioStream" \in Called(i)'
         /\ \A s \in DOMAIN rstreams :
              rstreams[s].user = pipes[i].user => rstreams[s].status = "closed" )
       => /\ players' = players
          /\ unhandled' = unhandled]_vars

\* C13: without the premium credential, SpeechSynthesizer.create has made at
\* most one engine, however many textToSpeech calls are in flight.
C13_EngineCreatedOnce ==
  ~premium => engines <= 1

\* C20: what is read from the stream a local textToSpeech(text) call
\* returned is the audio of that call's own text.
C20_StreamCarriesOwnText ==
  \A k \in DOMAIN ttsCalls :
    (~premium /\ ttsCalls[k].played # Unread) => ttsCalls[k].played = ttsCalls[k].text

\* C14: after scanGuild, the channel joined is the first of the channels
\* with the most non-bot members when a channel has one, and none is joined
\* and no connection made when no channel has any member.
C14_JoinsMostNonBots ==
  scans > 0 =>
    LET counts == [i \in DOMAIN guild |-> Cardinality(NonBots(guild[i]))]
    IN /\ (\E i \in DOMAIN guild : counts[i] > 0) =>
             /\ joinedChannel \in DOMAIN guild
             /\ \A j \in DOMAIN guild : counts[j] <= counts[joinedChannel]
             /\ \A j \in 1..(joinedChannel - 1) : counts[j] < counts[joinedChannel]
             /\ guildConn # 0
       /\ (\A i \in DOMAIN guild : Size(guild[i]) = 0) =>
             joinedChannel = 0 /\ guildConn = 0

\* The inputs of the first k utterances, one after the other.
RECURSIVE Utterances(_)
Utterances(k) ==
  IF k = 0 THEN <<>> ELSE Utterances(k - 1) \o pipes[k].input

\* The chunk that made the last flush, 0 before the first flush.
LastFlushed == IF pipes = <<>> THEN 0 ELSE pipes[Len(pipes)].at

\* C16: whatever awaits the pipelines in flight have passed, the utterances
\* handed to transcribe, in flush order, are together the chunks up to the
\* last flush in arrival order; the accumulator holds the chunks after it,
\* and nothing right after a flush; totalLength is the sum of the buffered
\* lengths.
C16_UtterancesPartitionTheStream ==
  /\ Utterances(Len(pipes)) = ArrivedBytes(1, LastFlushed)
  /\ buffers = [j \in 1..(Len(arrived) - LastFlushed) |->
                  [id |-> LastFlushed + j, len |-> arrived[LastFlushed + j].len]]
  /\ LastFlushed = Len(arrived) => buffers = <<>> /\ totalLength = 0
  /\ totalLength = SumLen(buffers)

\* C16 witness: two utterances flushed, the second of several chunks that
\* arrived while the first pipeline had got past transcribe or failed, and a
\* later chunk waiting in the accumulator.
C16_Witness ==
  /\ Len(pipes) = 2
  /\ pipes[2].at - pipes[1].at >= 2
  /\ Transcribed(1) \/ pipes[1].caughtAt # 0
  /\ pipes[2].pc = "transcribe"
  /\ buffers # <<>>

====
